---------------------------- MODULE Spec2Model ----------------------------
(* Model of the order-file parser of naacl-schedule-2019                   *)
(* (src/code/orderfile.py): Agenda.fromfile reads an order file line by    *)
(* line, keeps four "current" objects (day, session group, session, item)  *)
(* and a pending poster topic, and commits them to their parents through   *)
(* Agenda.update_states.                                                   *)
(*                                                                         *)
(* One step of the model is one iteration of the "for line in orderfh"     *)
(* loop, or the code that runs after the loop.  A Python exception raised  *)
(* inside fromfile ends the parse: pc becomes "failed" and the locals of   *)
(* the abandoned call keep the values they had before the failing line.    *)
(* Objects are modelled by value.  The number of the line that created an  *)
(* object is its identity (field id).  Every handler drops or replaces the *)
(* objects it has committed, so no committed object stays reachable from a *)
(* current slot and value semantics agree with Python's references.        *)
EXTENDS Integers, Sequences, FiniteSets, TLC

VARIABLES
    days,                   \* Agenda.days
    current_day,            \* locals of Agenda.fromfile
    current_session_group,
    current_session,
    current_item,
    current_poster_topic,
    pc,                     \* "reading", "done" (fromfile returned), "failed" (it raised)
    input,                  \* history: the lines read so far
    created,                \* history: ids of the objects the constructors returned
    frames,                 \* two Agenda objects, each with the locals of its fromfile call
    meta,                   \* a call of parse_metadata_into_dict: argument and return value
    schedule_metadata       \* a ScheduleMetadata object, the files it is made from, its lookups

vars == <<days, current_day, current_session_group, current_session,
          current_item, current_poster_topic, pc, input, created, frames, meta,
          schedule_metadata>>

-----------------------------------------------------------------------------
(* Bounds *)

\* longest order file explored, in lines
MaxLines == 5

\* longest order file explored by the poster-topic specification
MaxPosterLines == 7

\* lines read by the two interleaved parses together
MaxTwoLines == 5

\* fromfile calls made on one Agenda object
MaxCalls == 2

\* longest metadata string explored, in characters
MaxMetaLen == 10

\* longest id mapping file explored, in lines
MaxMappingLines == 2

\* longest order file explored by the specification of session and item types
MaxTypeLines == 4

-----------------------------------------------------------------------------
(* Python values *)

\* Python's None
None == [kind |-> "None"]

\* a local variable that has not been assigned yet (reading it raises UnboundLocalError)
Unbound == "<unbound>"

\* a pending topic of None (current_poster_topic = None, line 256)
NoneTopic == "<None>"

\* an attribute the constructor did not set on this object
NoAttr == "<no attribute>"

-----------------------------------------------------------------------------
(* Lines of an order file.  A title is the sequence of its words.  The     *)
(* header lines of the model match the regular expression of their class   *)
(* and the day lines carry a date that strptime accepts, so the            *)
(* constructors of Day, SessionGroup and Session return.                   *)

\* str.lower() on the words of the model
Lower(w) ==
    CASE w = "Keynote"   -> "keynote"
      [] w = "Coffee"    -> "coffee"
      [] w = "Speech"    -> "speech"
      [] w = "Posters"   -> "posters"
      [] w = "Tutorials" -> "tutorials"
      [] w = "Best"      -> "best"
      [] OTHER           -> w

\* the lower-cased words that contain the given keyword as a substring
Containing(keyword) ==
    CASE keyword = "break"    -> {"break"}
      [] keyword = "lunch"    -> {"lunch"}
      [] keyword = "coffee"   -> {"coffee"}
      [] keyword = "posters"  -> {"posters"}
      [] keyword = "tutorial" -> {"tutorial", "tutorials"}
      [] OTHER                -> {keyword}

\* re.search(keyword, title.lower())
Search(keyword, title) ==
    \E k \in 1..Len(title) : Lower(title[k]) \in Containing(keyword)

\* metadata is what follows "#" on the line, as a string of characters
Line(kind, form, title, suffix, text) ==
    [kind |-> kind, form |-> form, title |-> title, suffix |-> suffix, text |-> text,
     metadata |-> <<>>]

BlankLine == Line("blank", "", <<>>, "", "")
DayLine == Line("day", "", <<>>, "", "")
PlenaryLines == {Line("plenary", "", <<w>>, "", "") : w \in {"Keynote", "Coffee"}}
GroupLine == Line("group", "", <<>>, "", "")
\* "= Session <id>: <title>" and "= <title>"
SessionLines ==
    {Line("session", "Session", <<w>>, "", "") : w \in {"Speech", "Posters"}}
    \cup {Line("session", "", <<w>>, "", "") : w \in {"Tutorials", "Best"}}
TopicTexts == {"MT", "QA"}
TopicLines == {Line("topic", "", <<>>, "", t) : t \in TopicTexts}
MTLine == Line("topic", "", <<>>, "", "MT")
\* "<digits>[-<suffix>] ... #..."
ItemLines == {Line("item", "", <<>>, s, "") : s \in {"", "tutorial", "srw"}}
\* a line with no sigil that does not match Item._regexp
OtherLine == Line("other", "", <<>>, "", "")

PosterSessionLine == Line("session", "Session", <<"Posters">>, "", "")
PaperSessionLine == Line("session", "Session", <<"Speech">>, "", "")
PlainItemLine == Line("item", "", <<>>, "", "")

\* "= Session <title>": "= Session" with no "<id>: " after it
SessionNoColonLines ==
    {Line("session", "SessionNoColon", <<w>>, "", "") : w \in {"Tutorials", "Best"}}

\* what follows "#" on an item line: nothing, a room, a room and then a
\* chair, a chair only
ItemMetadata ==
    {<<>>,
     <<" ", "%", "a", " ", "a">>,
     <<"%", "a", " ", "a", " ", "%", "a", "a", " ", "a">>,
     <<"%", "a", "a", " ", "a">>}

\* item lines with metadata
MetadataItemLines ==
    {[line EXCEPT !.metadata = metadata_string] :
        line \in ItemLines, metadata_string \in ItemMetadata}

-----------------------------------------------------------------------------
(* parse_metadata_into_dict.  A string is a sequence of characters; " "    *)
(* stands for the whitespace characters (\s), "a" for the characters that  *)
(* are neither whitespace nor "%".  A dict is the set of its <<key, value>>*)
(* pairs.                                                                  *)

MetaChars == {"%", " ", "a"}
Space == {" "}
NonSpace == MetaChars \ Space
NonPercent == MetaChars \ {"%"}

\* the strings of at most n characters
Strings(n) == UNION {[1..m -> MetaChars] : m \in 0..n}

\* the first position from i on whose character is not in class, Len(str) + 1
\* if there is none: where a greedy run of class that starts at i ends
RunEnd(str, i, class) ==
    LET stops == {j \in i..Len(str) : str[j] \notin class}
    IN  IF stops = {} THEN Len(str) + 1
        ELSE CHOOSE j \in stops : \A m \in stops : j <= m

\* str.strip()
strip(str) ==
    LET first == RunEnd(str, 1, Space)
        solid == {j \in 1..Len(str) : str[j] \notin Space}
    IN  IF solid = {} THEN <<>>
        ELSE SubSeq(str, first, CHOOSE j \in solid : \A m \in solid : m <= j)

NoMatch == [ok |-> FALSE]

\* _METADATA_REGEXP = %([^\s]+)\s+([^%]+) matched at position i: the key
\* group is the greedy run of non-whitespace after "%", \s+ is the greedy
\* run of whitespace after it and gives back its last character when the
\* value group would otherwise be empty, the value group is the greedy run
\* of characters other than "%"
METADATA_REGEXP_match(str, i) ==
    IF str[i] # "%" THEN NoMatch
    ELSE LET key_end == RunEnd(str, i + 1, NonSpace)
             space_end == RunEnd(str, key_end, Space)
             value_start == IF space_end <= Len(str) /\ str[space_end] # "%"
                            THEN space_end ELSE space_end - 1
             value_end == RunEnd(str, value_start, NonPercent)
         IN  IF key_end = i + 1 \/ space_end = key_end \/ value_start = key_end
             THEN NoMatch
             ELSE [ok |-> TRUE, key |-> SubSeq(str, i + 1, key_end - 1),
                   value |-> SubSeq(str, value_start, value_end - 1),
                   end |-> value_end]

RECURSIVE METADATA_REGEXP_findall(_, _)
\* _METADATA_REGEXP.findall: the non-overlapping matches from position i on,
\* leftmost first
METADATA_REGEXP_findall(str, i) ==
    IF i > Len(str) THEN <<>>
    ELSE LET m == METADATA_REGEXP_match(str, i)
         IN  IF m.ok THEN <<<<m.key, m.value>>>> \o METADATA_REGEXP_findall(str, m.end)
             ELSE METADATA_REGEXP_findall(str, i + 1)

\* dict(pairs): the last pair with a key gives the key's value
dict(pairs) ==
    {pairs[j] : j \in {n \in 1..Len(pairs) :
                          \A m \in (n + 1)..Len(pairs) : pairs[m][1] # pairs[n][1]}}

parse_metadata_into_dict(metadata_string) ==
    dict(METADATA_REGEXP_findall(strip(metadata_string), 1))

\* metadata_dict.get(key, default)
metadata_get(metadata_dict, key, default) ==
    IF \E pair \in metadata_dict : pair[1] = key
    THEN (CHOOSE pair \in metadata_dict : pair[1] = key)[2]
    ELSE default

\* the key 'room' and another key ('chair1'), in the characters of the model
RoomKey == <<"a">>
ChairKey == <<"a", "a">>

-----------------------------------------------------------------------------
(* Constructors *)

Day_fromstring(id) ==
    [kind |-> "Day", id |-> id, contents |-> <<>>]

SessionGroup_fromstring(id) ==
    [kind |-> "SessionGroup", id |-> id, sessions |-> <<>>]

NewSession(id, type) ==
    [kind |-> "Session", id |-> id, type |-> type, items |-> <<>>]

\* session_string.startswith('= Session')
StartsWithSession(line) == line.form \in {"Session", "SessionNoColon"}

\* the regular expression of the branch does not match and .groups() is
\* called on None: "= Session" that is not followed by "<id>: <title>"
Session_fromstring_raises(line) == line.form = "SessionNoColon"

\* the Session that Session.fromstring returns when it does not raise
Session_fromstring(id, line) ==
    IF line.kind = "plenary"
    THEN NewSession(id, IF Search("break", line.title) \/ Search("lunch", line.title)
                           \/ Search("coffee", line.title)
                        THEN "break" ELSE "plenary")
    ELSE IF StartsWithSession(line)
    THEN NewSession(id, IF Search("posters", line.title) THEN "poster" ELSE "paper")
    ELSE NewSession(id, IF Search("tutorial", line.title) THEN "tutorial" ELSE "best_paper")

\* the location of an Item that was made without the keyword location
NoLocation == <<"<no attribute>">>

NewItem(id, id_, type, topic, track, location) ==
    [kind |-> "Item", id |-> id, id_ |-> id_, type |-> type, topic |-> topic, track |-> track,
     location |-> location]

\* the result of a call that may raise
Returned(value) == [ok |-> TRUE, value |-> value]
Raised == [ok |-> FALSE, value |-> None]

\* mutant: the assert on the suffix is missing
Item_fromstring_no_assert(id, line, containing_session_type) ==
    IF containing_session_type = "poster"
    THEN Returned(NewItem(id, <<id, line.suffix>>, "poster", "", "main", NoLocation))
    ELSE IF containing_session_type \in {"paper", "best_paper"}
    THEN Returned(NewItem(id, <<id, "">>, "paper", NoAttr,
                          IF line.suffix # "" THEN line.suffix ELSE "main", NoLocation))
    ELSE IF containing_session_type = "tutorial"
    THEN IF line.suffix = "" THEN Raised
         ELSE Returned(NewItem(id, <<id, "">>, "tutorial", NoAttr, "main",
                  strip(metadata_get(parse_metadata_into_dict(line.metadata), RoomKey, <<>>))))
    ELSE Returned(None)

\* mutant: the room of a tutorial is taken from the metadata as it is
Item_fromstring_room_not_stripped(id, line, containing_session_type) ==
    IF containing_session_type = "poster"
    THEN Returned(NewItem(id, <<id, line.suffix>>, "poster", "", "main", NoLocation))
    ELSE IF containing_session_type \in {"paper", "best_paper"}
    THEN Returned(NewItem(id, <<id, "">>, "paper", NoAttr,
                          IF line.suffix # "" THEN line.suffix ELSE "main", NoLocation))
    ELSE IF containing_session_type = "tutorial"
    THEN IF line.suffix = "" THEN Raised
         ELSE IF line.suffix # "tutorial" THEN Raised
         ELSE Returned(NewItem(id, <<id, "">>, "tutorial", NoAttr, "main",
                  metadata_get(parse_metadata_into_dict(line.metadata), RoomKey, <<>>)))
    ELSE Returned(None)

Item_fromstring(id, line, containing_session_type) ==
    IF containing_session_type = "poster"
    THEN Returned(NewItem(id, <<id, line.suffix>>, "poster", "", "main", NoLocation))
    ELSE IF containing_session_type \in {"paper", "best_paper"}
    THEN Returned(NewItem(id, <<id, "">>, "paper", NoAttr,
                          IF line.suffix # "" THEN line.suffix ELSE "main", NoLocation))
    ELSE IF containing_session_type = "tutorial"
    THEN IF line.suffix = "" THEN Raised             \* unpacking split('-') fails
         ELSE IF line.suffix # "tutorial" THEN Raised    \* the assert fails
         ELSE Returned(NewItem(id, <<id, "">>, "tutorial", NoAttr, "main",
                  strip(metadata_get(parse_metadata_into_dict(line.metadata), RoomKey, <<>>))))
    ELSE Returned(None)                              \* no branch: implicit return None

-----------------------------------------------------------------------------
(* Agenda.update_states.  The objects are updated in place in the code; here *)
(* the updated objects are returned.  ok is FALSE when current_day.add is    *)
(* called on None.                                                           *)

\* mutant: the item is added to the session only when the session is saved
update_states_item_with_session(ds, d, g, s, i, save_session, save_group, save_day) ==
    LET s1 == IF i # None /\ s # None /\ save_session
              THEN [s EXCEPT !.items = Append(@, i)] ELSE s
        committing == save_session /\ s1 # None
        toGroup == committing /\ g # None /\ s1.type \notin {"plenary", "break"}
        toDay == committing /\ ~toGroup
        g1 == IF toGroup THEN [g EXCEPT !.sessions = Append(@, s1)] ELSE g
        d1 == IF toDay /\ d # None THEN [d EXCEPT !.contents = Append(@, s1)] ELSE d
        groupToDay == save_group /\ g1 # None
        d2 == IF groupToDay /\ d1 # None THEN [d1 EXCEPT !.contents = Append(@, g1)] ELSE d1
    IN  [ok |-> ~((toDay \/ groupToDay) /\ d = None),
         days |-> IF save_day THEN Append(ds, d2) ELSE ds,
         day |-> d2, group |-> g1, session |-> s1, item |-> i]

\* mutant: the plenary/break test guards the whole session commit
update_states_type_test_outside(ds, d, g, s, i, save_session, save_group, save_day) ==
    LET s1 == IF i # None /\ s # None THEN [s EXCEPT !.items = Append(@, i)] ELSE s
        committing == save_session /\ s1 # None /\ s1.type \notin {"plenary", "break"}
        toGroup == committing /\ g # None
        toDay == committing /\ ~toGroup
        g1 == IF toGroup THEN [g EXCEPT !.sessions = Append(@, s1)] ELSE g
        d1 == IF toDay /\ d # None THEN [d EXCEPT !.contents = Append(@, s1)] ELSE d
        groupToDay == save_group /\ g1 # None
        d2 == IF groupToDay /\ d1 # None THEN [d1 EXCEPT !.contents = Append(@, g1)] ELSE d1
    IN  [ok |-> ~((toDay \/ groupToDay) /\ d = None),
         days |-> IF save_day THEN Append(ds, d2) ELSE ds,
         day |-> d2, group |-> g1, session |-> s1, item |-> i]

\* mutant: a saved session always goes to the day
update_states_session_to_day(ds, d, g, s, i, save_session, save_group, save_day) ==
    LET s1 == IF i # None /\ s # None THEN [s EXCEPT !.items = Append(@, i)] ELSE s
        committing == save_session /\ s1 # None
        toGroup == FALSE
        toDay == committing /\ ~toGroup
        g1 == IF toGroup THEN [g EXCEPT !.sessions = Append(@, s1)] ELSE g
        d1 == IF toDay /\ d # None THEN [d EXCEPT !.contents = Append(@, s1)] ELSE d
        groupToDay == save_group /\ g1 # None
        d2 == IF groupToDay /\ d1 # None THEN [d1 EXCEPT !.contents = Append(@, g1)] ELSE d1
    IN  [ok |-> ~((toDay \/ groupToDay) /\ d = None),
         days |-> IF save_day THEN Append(ds, d2) ELSE ds,
         day |-> d2, group |-> g1, session |-> s1, item |-> i]

update_states(ds, d, g, s, i, save_session, save_group, save_day) ==
    LET s1 == IF i # None /\ s # None THEN [s EXCEPT !.items = Append(@, i)] ELSE s
        committing == save_session /\ s1 # None
        toGroup == committing /\ g # None /\ s1.type \notin {"plenary", "break"}
        toDay == committing /\ ~toGroup
        g1 == IF toGroup THEN [g EXCEPT !.sessions = Append(@, s1)] ELSE g
        d1 == IF toDay /\ d # None THEN [d EXCEPT !.contents = Append(@, s1)] ELSE d
        groupToDay == save_group /\ g1 # None
        d2 == IF groupToDay /\ d1 # None THEN [d1 EXCEPT !.contents = Append(@, g1)] ELSE d1
    IN  [ok |-> ~((toDay \/ groupToDay) /\ d = None),
         days |-> IF save_day THEN Append(ds, d2) ELSE ds,
         day |-> d2, group |-> g1, session |-> s1, item |-> i]

-----------------------------------------------------------------------------
(* The parse *)

\* the callers that parse side by side
Parsers == {1, 2}

\* an Agenda that has not been constructed yet
IdleFrame ==
    [days |-> <<>>, day |-> None, group |-> None, session |-> None, item |-> None,
     topic |-> Unbound, pc |-> "idle", input |-> <<>>, before |-> <<>>, calls |-> 0,
     total |-> 0]

\* no call of parse_metadata_into_dict is under way
IdleMeta == [pc |-> "idle", metadata_string |-> <<>>, metadata_dict |-> {}]

\* no ScheduleMetadata object is being made
NoSchedule == [pc |-> "idle"]

Init ==
    /\ frames = [p \in Parsers |-> IdleFrame]
    /\ meta = IdleMeta
    /\ schedule_metadata = NoSchedule
    /\ days = <<>>
    /\ current_day = None
    /\ current_session_group = None
    /\ current_session = None
    /\ current_item = None
    /\ current_poster_topic = Unbound
    /\ pc = "reading"
    /\ input = <<>>
    /\ created = {}

\* the exception leaves fromfile; Agenda.days keeps what was appended before
Fail ==
    /\ pc' = "failed"
    /\ UNCHANGED <<days, current_day, current_session_group, current_session,
                   current_item, current_poster_topic, created>>

\* the id of the object the line being read creates
NextId == Len(input) + 1

Reads(line, limit) ==
    /\ pc = "reading"
    /\ Len(input) < limit
    /\ input' = Append(input, line)
    /\ UNCHANGED <<frames, meta, schedule_metadata>>

\* line.strip() is empty: continue
ReadBlank(limit) ==
    /\ Reads(BlankLine, limit)
    /\ UNCHANGED <<days, current_day, current_session_group, current_session,
                   current_item, current_poster_topic, pc, created>>

\* mutant: the session group is not reset at a day header
DayBranch_group_kept(ds, d, g, s, i, id) ==
    LET u == IF d # None THEN update_states(ds, d, g, s, i, TRUE, TRUE, TRUE)
             ELSE [ok |-> TRUE, days |-> ds]
    IN  [ok |-> u.ok, days |-> u.days, day |-> Day_fromstring(id),
         group |-> g, session |-> None, item |-> None]

\* the branch for line.startswith('* '), as a function of the locals
DayBranch(ds, d, g, s, i, id) ==
    LET u == IF d # None THEN update_states(ds, d, g, s, i, TRUE, TRUE, TRUE)
             ELSE [ok |-> TRUE, days |-> ds]
    IN  [ok |-> u.ok, days |-> u.days, day |-> Day_fromstring(id),
         group |-> None, session |-> None, item |-> None]

\* the code after the loop, as a function of the locals
EndBranch(ds, d, g, s, i) ==
    LET u == update_states(ds, d, g, s, i, TRUE, TRUE, TRUE)
    IN  [ok |-> u.ok, days |-> u.days, day |-> None,
         group |-> None, session |-> None, item |-> None]

\* line.startswith('* ')
ReadDay(limit) ==
    /\ Reads(DayLine, limit)
    /\ LET b == DayBranch(days, current_day, current_session_group,
                           current_session, current_item, NextId)
       IN  /\ days' = b.days
           /\ current_session' = b.session
           /\ current_session_group' = b.group
           /\ current_item' = b.item
           /\ current_day' = b.day
           /\ created' = created \cup {NextId}
           /\ UNCHANGED <<current_poster_topic, pc>>

\* the locals after a branch of the loop body: ok is FALSE when the branch
\* raised, made tells whether the branch constructed an object
Locals(ok, d, g, s, i, t, made) ==
    [ok |-> ok, day |-> d, group |-> g, session |-> s, item |-> i, topic |-> t,
     made |-> made]

\* mutant: a plenary header is handled like a session header, the session
\* group is neither saved nor closed
PlenaryBranch_group_kept(ds, d, g, s, i, t, id, line) ==
    LET u == update_states(ds, d, g, s, i, TRUE, FALSE, FALSE)
    IN  Locals(u.ok /\ ~Session_fromstring_raises(line), u.day, u.group,
               Session_fromstring(id, line), None, t, TRUE)

\* mutant: a plenary header closes the session group without saving it
PlenaryBranch_group_not_saved(ds, d, g, s, i, t, id, line) ==
    LET u == update_states(ds, d, g, s, i, TRUE, FALSE, FALSE)
    IN  Locals(u.ok, u.day, None, Session_fromstring(id, line), None, t, TRUE)

\* the branch for line.startswith('! '), as a function of the locals
PlenaryBranch(ds, d, g, s, i, t, id, line) ==
    LET u == update_states(ds, d, g, s, i, TRUE, TRUE, FALSE)
    IN  Locals(u.ok, u.day, None, Session_fromstring(id, line), None, t, TRUE)

\* mutant: a session group header leaves the open session in its slot
GroupBranch_session_kept(ds, d, g, s, i, t, id, line) ==
    LET u == update_states(ds, d, g, s, i, TRUE, TRUE, FALSE)
    IN  Locals(u.ok, u.day, SessionGroup_fromstring(id), s, None, t, TRUE)

\* the branch for line.startswith('+ '), as a function of the locals
GroupBranch(ds, d, g, s, i, t, id, line) ==
    LET u == update_states(ds, d, g, s, i, TRUE, TRUE, FALSE)
    IN  Locals(u.ok, u.day, SessionGroup_fromstring(id), None, None, t, TRUE)

\* mutant: a session header leaves the open item in its slot
SessionBranch_item_kept(ds, d, g, s, i, t, id, line) ==
    LET u == update_states(ds, d, g, s, i, TRUE, FALSE, FALSE)
    IN  Locals(u.ok /\ ~Session_fromstring_raises(line), u.day, u.group,
               Session_fromstring(id, line), i, t, TRUE)

\* mutant: a session header does not save the open session
SessionBranch_session_not_saved(ds, d, g, s, i, t, id, line) ==
    LET u == update_states(ds, d, g, s, i, FALSE, FALSE, FALSE)
    IN  Locals(u.ok /\ ~Session_fromstring_raises(line), u.day, u.group,
               Session_fromstring(id, line), None, t, TRUE)

\* the branch for line.startswith('= '), as a function of the locals
SessionBranch(ds, d, g, s, i, t, id, line) ==
    LET u == update_states(ds, d, g, s, i, TRUE, FALSE, FALSE)
    IN  Locals(u.ok /\ ~Session_fromstring_raises(line), u.day, u.group,
               Session_fromstring(id, line), None, t, TRUE)

\* mutant: a topic marker does not reset the current item
TopicBranch_item_kept(ds, d, g, s, i, t, id, line) ==
    LET u == update_states(ds, d, g, s, i, FALSE, FALSE, FALSE)
    IN  Locals(u.ok, u.day, u.group, u.session, i, line.text, FALSE)

\* mutant: a topic marker resets the current item without adding it to the session
TopicBranch_item_dropped(ds, d, g, s, i, t, id, line) ==
    Locals(TRUE, d, g, s, None, line.text, FALSE)

\* the branch for line.startswith('@ '), as a function of the locals
TopicBranch(ds, d, g, s, i, t, id, line) ==
    LET u == update_states(ds, d, g, s, i, FALSE, FALSE, FALSE)
    IN  Locals(u.ok, u.day, u.group, u.session, None, line.text, FALSE)

\* mutant: an item line is skipped when no session is open
ItemBranch_skip_without_session(ds, d, g, s, i, t, id, line) ==
    LET attach == i # None /\ i.type = "poster"
        item == IF attach THEN [i EXCEPT !.topic = t] ELSE i
        topic == IF attach THEN NoneTopic ELSE t
        u == update_states(ds, d, g, s, item, FALSE, FALSE, FALSE)
        new == IF s = None THEN Returned(None) ELSE Item_fromstring(id, line, s.type)
    IN  Locals(~(attach /\ t = Unbound) /\ u.ok /\ new.ok,
               u.day, u.group, u.session, new.value, topic, new.value # None)

\* the branch for Item._regexp.match(line), as a function of the locals
ItemBranch(ds, d, g, s, i, t, id, line) ==
    LET attach == i # None /\ i.type = "poster"
        item == IF attach THEN [i EXCEPT !.topic = t] ELSE i
        topic == IF attach THEN NoneTopic ELSE t
        u == update_states(ds, d, g, s, item, FALSE, FALSE, FALSE)
        new == IF s = None THEN Raised ELSE Item_fromstring(id, line, s.type)
    IN  Locals(~(attach /\ t = Unbound) /\ u.ok /\ new.ok,
               u.day, u.group, u.session, new.value, topic, new.value # None)

\* the assignments of a branch that does not append to Agenda.days
Assign(b) ==
    IF ~b.ok THEN Fail
    ELSE /\ current_day' = b.day
         /\ current_session_group' = b.group
         /\ current_session' = b.session
         /\ current_item' = b.item
         /\ current_poster_topic' = b.topic
         /\ created' = IF b.made THEN created \cup {NextId} ELSE created
         /\ UNCHANGED <<days, pc>>

\* line.startswith('! ')
ReadPlenary(limit) ==
    \E line \in PlenaryLines :
        /\ Reads(line, limit)
        /\ Assign(PlenaryBranch(days, current_day, current_session_group, current_session,
                                current_item, current_poster_topic, NextId, line))

\* line.startswith('+ ')
ReadGroup(limit) ==
    /\ Reads(GroupLine, limit)
    /\ Assign(GroupBranch(days, current_day, current_session_group, current_session,
                          current_item, current_poster_topic, NextId, GroupLine))

\* line.startswith('= ')
ReadSession(lines, limit) ==
    \E line \in lines :
        /\ Reads(line, limit)
        /\ Assign(SessionBranch(days, current_day, current_session_group, current_session,
                                current_item, current_poster_topic, NextId, line))

\* line.startswith('@ ')
ReadTopic(lines, limit) ==
    \E line \in lines :
        /\ Reads(line, limit)
        /\ Assign(TopicBranch(days, current_day, current_session_group, current_session,
                              current_item, current_poster_topic, NextId, line))

\* Item._regexp.match(line)
ReadItem(lines, limit) ==
    \E line \in lines :
        /\ Reads(line, limit)
        /\ Assign(ItemBranch(days, current_day, current_session_group, current_session,
                             current_item, current_poster_topic, NextId, line))

\* no branch of the if/elif chain matches: the loop goes on to the next line
ReadUnrecognized(limit) ==
    /\ Reads(OtherLine, limit)
    /\ UNCHANGED <<days, current_day, current_session_group, current_session,
                   current_item, current_poster_topic, pc, created>>

\* the code after the loop
EndOfInput ==
    /\ pc = "reading"
    /\ LET b == EndBranch(days, current_day, current_session_group,
                           current_session, current_item)
       IN  IF ~b.ok
           THEN Fail /\ UNCHANGED input
           ELSE /\ days' = b.days
                /\ current_day' = b.day
                /\ current_session_group' = b.group
                /\ current_session' = b.session
                /\ current_item' = b.item
                /\ pc' = "done"
                /\ UNCHANGED <<current_poster_topic, input, created>>
    /\ UNCHANGED <<frames, meta, schedule_metadata>>

Next ==
    \/ ReadBlank(MaxLines)
    \/ ReadDay(MaxLines)
    \/ ReadPlenary(MaxLines)
    \/ ReadGroup(MaxLines)
    \/ ReadSession(SessionLines, MaxLines)
    \/ ReadTopic({MTLine}, MaxLines)
    \/ ReadItem(ItemLines, MaxLines)
    \/ ReadUnrecognized(MaxLines)
    \/ EndOfInput

Spec == Init /\ [][Next]_vars

\* order files made of day headers, poster and paper sessions, topic markers
\* and items without a track suffix
NextPoster ==
    \/ ReadDay(MaxPosterLines)
    \/ ReadSession({PosterSessionLine, PaperSessionLine}, MaxPosterLines)
    \/ ReadTopic(TopicLines, MaxPosterLines)
    \/ ReadItem({PlainItemLine}, MaxPosterLines)
    \/ EndOfInput

SpecPoster == Init /\ [][NextPoster]_vars

\* order files made of day, plenary and session headers, among them
\* "= Session" headers without an id, and items with metadata
NextTypes ==
    \/ ReadDay(MaxTypeLines)
    \/ ReadPlenary(MaxTypeLines)
    \/ ReadSession(SessionLines \cup SessionNoColonLines, MaxTypeLines)
    \/ ReadItem(MetadataItemLines, MaxTypeLines)
    \/ EndOfInput

SpecTypes == Init /\ [][NextTypes]_vars

-----------------------------------------------------------------------------
(* Two Agenda objects parsed side by side.  frames[p] holds Agenda.days of *)
(* the p-th object and the locals of its fromfile call; input is the       *)
(* history of the lines the call has read, closed by EofLine when the      *)
(* loop is left; before is the history of Agenda.days at the call, calls   *)
(* and total count the calls made on the object and the lines they read.   *)

\* the end of the file: the for loop is left
EofLine == Line("eof", "", <<>>, "", "")

\* fromfile is entered on an Agenda whose days are ds, for the n-th time,
\* after earlier calls on it have read r lines
StartFrame(ds, n, r) ==
    [days |-> ds, day |-> None, group |-> None, session |-> None, item |-> None,
     topic |-> Unbound, pc |-> "reading", input |-> <<>>, before |-> ds, calls |-> n,
     total |-> r]

\* one iteration of the loop, or the code after it, on the frame f
Step(f, line) ==
    LET id == Len(f.input) + 1
        read == [f EXCEPT !.input = Append(@, line),
                          !.total = IF line.kind = "eof" THEN @ ELSE @ + 1]
        failed == [read EXCEPT !.pc = "failed"]
        locals(b) == IF ~b.ok THEN failed
                     ELSE [read EXCEPT !.day = b.day, !.group = b.group,
                                       !.session = b.session, !.item = b.item,
                                       !.topic = b.topic]
        saved(b, state) == IF ~b.ok THEN failed
                           ELSE [read EXCEPT !.days = b.days, !.day = b.day,
                                             !.group = b.group, !.session = b.session,
                                             !.item = b.item, !.pc = state]
    IN  CASE line.kind = "day" ->
               saved(DayBranch(f.days, f.day, f.group, f.session, f.item, id), "reading")
          [] line.kind = "plenary" ->
               locals(PlenaryBranch(f.days, f.day, f.group, f.session, f.item, f.topic, id, line))
          [] line.kind = "group" ->
               locals(GroupBranch(f.days, f.day, f.group, f.session, f.item, f.topic, id, line))
          [] line.kind = "session" ->
               locals(SessionBranch(f.days, f.day, f.group, f.session, f.item, f.topic, id, line))
          [] line.kind = "topic" ->
               locals(TopicBranch(f.days, f.day, f.group, f.session, f.item, f.topic, id, line))
          [] line.kind = "item" ->
               locals(ItemBranch(f.days, f.day, f.group, f.session, f.item, f.topic, id, line))
          [] line.kind = "eof" ->
               saved(EndBranch(f.days, f.day, f.group, f.session, f.item), "done")
          [] OTHER -> read

\* agenda = Agenda(); agenda.fromfile(...) is entered
Begin(p) ==
    /\ frames[p].pc = "idle"
    /\ frames' = [frames EXCEPT ![p] = StartFrame(<<>>, 1, 0)]
    /\ UNCHANGED <<days, current_day, current_session_group, current_session,
                   current_item, current_poster_topic, pc, input, created, meta,
                   schedule_metadata>>

\* agenda.fromfile(...) is entered again on an Agenda that a call has filled
ParseAgain(p) ==
    /\ frames[p].pc = "done"
    /\ frames[p].calls < MaxCalls
    /\ frames' = [frames EXCEPT ![p] = StartFrame(frames[p].days, frames[p].calls + 1, frames[p].total)]
    /\ UNCHANGED <<days, current_day, current_session_group, current_session,
                   current_item, current_poster_topic, pc, input, created, meta,
                   schedule_metadata>>

\* mutant: the pending poster topic is a module-level variable
ParserReads_global_topic(p, lines, limit) ==
    /\ frames[p].pc = "reading"
    /\ frames[1].total + frames[2].total < limit
    /\ \E line \in lines :
          LET f == Step(frames[p], line)
          IN  frames' = [q \in Parsers |->
                            IF q = p THEN f ELSE [frames[q] EXCEPT !.topic = f.topic]]
    /\ UNCHANGED <<days, current_day, current_session_group, current_session,
                   current_item, current_poster_topic, pc, input, created, meta,
                   schedule_metadata>>

\* the call of caller p runs one iteration of its loop
ParserReads(p, lines, limit) ==
    /\ frames[p].pc = "reading"
    /\ frames[1].total + frames[2].total < limit
    /\ \E line \in lines : frames' = [frames EXCEPT ![p] = Step(frames[p], line)]
    /\ UNCHANGED <<days, current_day, current_session_group, current_session,
                   current_item, current_poster_topic, pc, input, created, meta,
                   schedule_metadata>>

\* the call of caller p leaves its loop and runs the code after it
ParserEnds(p) ==
    /\ frames[p].pc = "reading"
    /\ frames' = [frames EXCEPT ![p] = Step(frames[p], EofLine)]
    /\ UNCHANGED <<days, current_day, current_session_group, current_session,
                   current_item, current_poster_topic, pc, input, created, meta,
                   schedule_metadata>>

\* the lines the two callers read
TwoLines == {DayLine, PosterSessionLine, MTLine, PlainItemLine}

NextTwo ==
    \E p \in Parsers :
        \/ Begin(p)
        \/ ParseAgain(p)
        \/ ParserReads(p, TwoLines, MaxTwoLines)
        \/ ParserEnds(p)

SpecTwo == Init /\ [][NextTwo]_vars

RECURSIVE Run(_, _)
\* fromfile run from the frame f over the lines seq with no other call in between
Run(f, seq) ==
    IF seq = <<>> \/ f.pc # "reading" THEN f
    ELSE Run(Step(f, Head(seq)), Tail(seq))

-----------------------------------------------------------------------------
(* Calls of parse_metadata_into_dict *)

\* the function is about to be called with some string
InitMeta ==
    /\ meta \in {[pc |-> "called", metadata_string |-> str, metadata_dict |-> {}] :
                    str \in Strings(MaxMetaLen)}
    /\ frames = [p \in Parsers |-> IdleFrame]
    /\ schedule_metadata = NoSchedule
    /\ days = <<>>
    /\ current_day = None
    /\ current_session_group = None
    /\ current_session = None
    /\ current_item = None
    /\ current_poster_topic = Unbound
    /\ pc = "reading"
    /\ input = <<>>
    /\ created = {}

\* the call returns
ParseMetadata ==
    /\ meta.pc = "called"
    /\ meta' = [meta EXCEPT !.pc = "returned",
                            !.metadata_dict = parse_metadata_into_dict(meta.metadata_string)]
    /\ UNCHANGED <<days, current_day, current_session_group, current_session,
                   current_item, current_poster_topic, pc, input, created, frames,
                   schedule_metadata>>

NextMeta == ParseMetadata

SpecMeta == InitMeta /\ [][NextMeta]_vars

-----------------------------------------------------------------------------
(* ScheduleMetadata (src/code/metadata.py).  A dict is the sequence of its *)
(* <<key, value>> pairs in insertion order.  The MetadataTuple read from   *)
(* the anthology XML for an anthology id is <<"anthology", id>>, the one   *)
(* read from the non-anthology TSV for an order id is <<"tsv", id>>.       *)

AnthologyIds == {"N1", "N2"}
OrderIds == {"4", "5"}
\* an id that no file mentions
UnknownId == "9"
AllIds == AnthologyIds \cup OrderIds \cup {UnknownId}

\* id_[0]
FirstChar(id) ==
    CASE id \in {"N1", "N2"} -> "N"
      [] id = "4" -> "4"
      [] id = "5" -> "5"
      [] OTHER -> "9"

\* the outcome of a lookup that raises KeyError
KeyError == <<"KeyError", "">>

Keys(d) == {d[j][1] : j \in 1..Len(d)}

\* d[key] for a key of d
Get(d, key) == d[CHOOSE j \in 1..Len(d) : d[j][1] = key][2]

\* d[key] = value
Put(d, key, value) ==
    IF key \in Keys(d)
    THEN [j \in 1..Len(d) |-> IF d[j][1] = key THEN <<key, value>> ELSE d[j]]
    ELSE Append(d, <<key, value>>)

RECURSIVE PutAll(_, _)
\* d.update(pairs), and the dict comprehensions: the pairs are put in order
PutAll(d, pairs) ==
    IF pairs = <<>> THEN d
    ELSE PutAll(Put(d, Head(pairs)[1], Head(pairs)[2]), Tail(pairs))

\* the lines of a mapping file are <<anthology_id, order_id>>
parse_id_mapping_file(lines) ==
    PutAll(<<>>, [j \in 1..Len(lines) |-> <<lines[j][2], lines[j][1]>>])

\* the XML files hold the papers with the anthology ids xml
parse_anthology_xml(xml) == {<<id, <<"anthology", id>>>> : id \in xml}

\* the TSV file has one row for each of the order ids tsv, in this order
parse_non_anthology_file(tsv) == [j \in 1..Len(tsv) |-> <<tsv[j], <<"tsv", tsv[j]>>>>]

RECURSIVE UpdateAll(_, _)
\* the loop over the mapping files
UpdateAll(d, mappings) ==
    IF mappings = <<>> THEN d
    ELSE UpdateAll(PutAll(d, parse_id_mapping_file(Head(mappings))), Tail(mappings))

\* ScheduleMetadata.__init__
ScheduleMetadata(metadata_dict, mapping_dict) ==
    [order_id_to_metadata_dict |-> metadata_dict,
     order_id_to_anthology_id_dict |-> mapping_dict,
     anthology_id_to_order_id_dict |->
        PutAll(<<>>, [j \in 1..Len(mapping_dict) |->
                         <<mapping_dict[j][2], mapping_dict[j][1]>>])]

\* ScheduleMetadata.fromfiles; the bridge raises KeyError for an anthology
\* id that no XML file holds
fromfiles(xml, mappings, tsv) ==
    LET order_id_to_anthology_id_dict == UpdateAll(<<>>, mappings)
        anthology_metadata_dict == parse_anthology_xml(xml)
        bridged == [j \in 1..Len(order_id_to_anthology_id_dict) |->
                       <<order_id_to_anthology_id_dict[j][1],
                         <<"anthology", order_id_to_anthology_id_dict[j][2]>>>>]
    IN  IF \E j \in 1..Len(order_id_to_anthology_id_dict) :
               \A pair \in anthology_metadata_dict :
                   pair[1] # order_id_to_anthology_id_dict[j][2]
        THEN Raised
        ELSE Returned(ScheduleMetadata(PutAll(bridged, parse_non_anthology_file(tsv)),
                                       order_id_to_anthology_id_dict))

\* ScheduleMetadata.__getitem__
getitem(self, id_) ==
    LET anthology == FirstChar(id_) \in {"N", "W", "S"}
        order_id == IF anthology THEN Get(self.anthology_id_to_order_id_dict, id_)
                    ELSE id_
    IN  IF anthology /\ id_ \notin Keys(self.anthology_id_to_order_id_dict)
        THEN KeyError
        ELSE IF order_id \in Keys(self.order_id_to_metadata_dict)
        THEN Get(self.order_id_to_metadata_dict, order_id)
        ELSE KeyError

\* the mapping files of at most n lines
MappingFiles(n) == UNION {[1..m -> AnthologyIds \X OrderIds] : m \in 0..n}

\* fromfiles is about to be called with two mapping files, the XML files and
\* possibly a TSV file
InitSchedule ==
    /\ schedule_metadata \in
          {[pc |-> "files", xmls |-> xml, mappings |-> <<first, second>>,
            non_anthology_tsv |-> tsv] :
              xml \in {AnthologyIds, {"N1"}},
              first \in MappingFiles(MaxMappingLines),
              second \in MappingFiles(MaxMappingLines),
              tsv \in {<<>>, <<"5">>}}
    /\ frames = [p \in Parsers |-> IdleFrame]
    /\ meta = IdleMeta
    /\ days = <<>>
    /\ current_day = None
    /\ current_session_group = None
    /\ current_session = None
    /\ current_item = None
    /\ current_poster_topic = Unbound
    /\ pc = "reading"
    /\ input = <<>>
    /\ created = {}

\* ScheduleMetadata.fromfiles returns or raises
FromFiles ==
    /\ schedule_metadata.pc = "files"
    /\ LET made == fromfiles(schedule_metadata.xmls, schedule_metadata.mappings,
                             schedule_metadata.non_anthology_tsv)
       IN  schedule_metadata' =
              IF made.ok
              THEN [pc |-> "made", xmls |-> schedule_metadata.xmls,
                    mappings |-> schedule_metadata.mappings,
                    non_anthology_tsv |-> schedule_metadata.non_anthology_tsv,
                    self |-> made.value, looked_up |-> {}]
              ELSE [schedule_metadata EXCEPT !.pc = "failed"]
    /\ UNCHANGED <<days, current_day, current_session_group, current_session,
                   current_item, current_poster_topic, pc, input, created, frames, meta>>

\* schedule_metadata[id_]: looked_up is the history of the lookups and what
\* they gave
Lookup ==
    /\ schedule_metadata.pc = "made"
    /\ \E id_ \in AllIds :
          /\ \A l \in schedule_metadata.looked_up : l[1] # id_
          /\ schedule_metadata' =
                [schedule_metadata EXCEPT
                    !.looked_up = @ \cup {<<id_, getitem(schedule_metadata.self, id_)>>}]
    /\ UNCHANGED <<days, current_day, current_session_group, current_session,
                   current_item, current_poster_topic, pc, input, created, frames, meta>>

NextSchedule == FromFiles \/ Lookup

SpecSchedule == InitSchedule /\ [][NextSchedule]_vars

-----------------------------------------------------------------------------
(* The Agenda tree: positions of the objects reachable from Agenda.days    *)

DayPos == {<<"D", k>> : k \in {n \in 1..Len(days) : days[n] # None}}

TopPos == UNION {{<<"T", p[2], j>> : j \in 1..Len(days[p[2]].contents)} : p \in DayPos}

GroupPos == {p \in TopPos : days[p[2]].contents[p[3]].kind = "SessionGroup"}

SubPos == UNION {{<<"S", p[2], p[3], m>> :
                    m \in 1..Len(days[p[2]].contents[p[3]].sessions)} : p \in GroupPos}

\* the object at a day, top-level or group-member position
At(p) ==
    CASE p[1] = "D" -> days[p[2]]
      [] p[1] = "T" -> days[p[2]].contents[p[3]]
      [] p[1] = "S" -> days[p[2]].contents[p[3]].sessions[p[4]]
      [] p[1] = "I" -> IF p[4] = 0 THEN days[p[2]].contents[p[3]].items[p[5]]
                       ELSE days[p[2]].contents[p[3]].sessions[p[4]].items[p[5]]

SessionPos == (TopPos \ GroupPos) \cup SubPos

ItemPos == UNION {{<<"I", p[2], p[3], IF p[1] = "T" THEN 0 ELSE p[4], n>> :
                     n \in 1..Len(At(p).items)} : p \in SessionPos}

AllPos == DayPos \cup TopPos \cup SubPos \cup ItemPos

\* how many times the object created by line id occurs in the Agenda
Occurrences(id) == Cardinality({p \in AllPos : At(p).id = id})

\* the item created by line id, where it occurs in the Agenda
ItemsOf(id) == {At(p) : p \in {q \in ItemPos : At(q).id = id}}

-----------------------------------------------------------------------------
(* The order file read so far *)

KindOf(kind) ==
    CASE kind = "day" -> "Day"
      [] kind = "group" -> "SessionGroup"
      [] kind \in {"plenary", "session"} -> "Session"
      [] kind = "item" -> "Item"
      [] OTHER -> "None"

HeaderKinds == {"day", "plenary", "group", "session"}
EntityKinds == HeaderKinds \cup {"item"}

LinesOf(kinds) == {k \in 1..Len(input) : input[k].kind \in kinds}

\* the last line before line k that has one of the kinds, 0 if there is none
LastBefore(k, kinds) ==
    LET before == {j \in LinesOf(kinds) : j < k}
    IN  IF before = {} THEN 0 ELSE CHOOSE j \in before : \A h \in before : h <= j

\* the header line of the session that is open when line k is read, or 0
SessionLineAt(k) ==
    LET h == LastBefore(k, HeaderKinds)
    IN  IF h # 0 /\ input[h].kind \in {"plenary", "session"} THEN h ELSE 0

\* the header line of the session group that is open when line k is read, or 0
GroupLineAt(k) ==
    LET h == LastBefore(k, {"day", "plenary", "group"})
    IN  IF h # 0 /\ input[h].kind = "group" THEN h ELSE 0

\* the header line of the day that is open when line k is read, or 0
DayLineAt(k) == LastBefore(k, {"day"})

\* the type of the session a header line opens
TypeOfLine(h) == Session_fromstring(h, input[h]).type

\* the file starts with a day header and every item line is under a
\* paper, poster, tutorial or best-paper session
\* a day header comes before every other header, marker and item line
StartsWithDay ==
    /\ LinesOf({"day"}) # {}
    /\ \A k \in LinesOf(EntityKinds \cup {"topic"}) :
          input[k].kind = "day" \/ DayLineAt(k) # 0

WellFormed ==
    /\ StartsWithDay
    /\ \A k \in LinesOf({"item"}) :
          /\ SessionLineAt(k) # 0
          /\ input[SessionLineAt(k)].kind = "session"

NoneOpen ==
    /\ current_day = None
    /\ current_session_group = None
    /\ current_session = None
    /\ current_item = None

-----------------------------------------------------------------------------
(* Claims *)

\* C1: after end of input of a well-formed order file no Day, SessionGroup,
\* Session or Item is left in a current slot, and the object created by
\* every day, group, plenary, session and item line occurs exactly once in
\* the Agenda tree, at a position of its kind.
C1_EveryEntityCommittedOnce ==
    (pc = "done" /\ WellFormed) =>
        /\ NoneOpen
        /\ \A k \in LinesOf(EntityKinds) :
              /\ Occurrences(k) = 1
              /\ \A p \in AllPos : At(p).id = k => At(p).kind = KindOf(input[k].kind)
        /\ \A p \in AllPos : At(p).id \in LinesOf(EntityKinds)

\* C1 witness: a finished parse of a well-formed file with a day, a group,
\* a session in the group and two items
C1_Witness ==
    /\ pc = "done"
    /\ WellFormed
    /\ LinesOf({"group"}) # {}
    /\ Cardinality(LinesOf({"item"})) >= 2
    /\ \E p \in ItemPos : p[4] # 0


\* C2: in the final Agenda no plenary or break session is a member of a
\* session group, and every plenary or break session whose header was read
\* under a day is a direct member of a Day's contents, also when a session
\* group was open at its header.
C2_PlenaryNeverInGroup ==
    pc = "done" =>
        /\ \A p \in SubPos : At(p).type \notin {"plenary", "break"}
        /\ \A k \in LinesOf({"plenary"}) :
              DayLineAt(k) # 0 =>
                  \E p \in TopPos : /\ At(p).id = k
                                    /\ At(p).kind = "Session"
                                    /\ At(p).type = TypeOfLine(k)

\* C2 witness: a finished parse in which a plenary header was read while a
\* session group with a session was open
C2_Witness ==
    /\ pc = "done"
    /\ \E k \in LinesOf({"plenary"}) :
          /\ GroupLineAt(k) # 0
          /\ DayLineAt(k) # 0
          /\ SessionLineAt(k) > GroupLineAt(k)
          /\ \E p \in TopPos : At(p).id = k

LastLine == input[Len(input)]

\* C8: an item line without the "-tutorial" suffix read under a tutorial
\* session makes the parse fail, and no Item is created for the line.
C8_TutorialItemWithoutSuffixFails ==
    (/\ Len(input) > 0
     /\ LastLine.kind = "item"
     /\ LastLine.suffix # "tutorial"
     /\ current_session # None
     /\ current_session.type = "tutorial")
    => /\ pc = "failed"
       /\ Len(input) \notin created
       /\ current_item # None => current_item.id # Len(input)

\* C8 witness: the parse has failed at an item line with a suffix other than
\* "tutorial" under a tutorial session
C8_Witness ==
    /\ pc = "failed"
    /\ Len(input) > 0
    /\ LastLine.kind = "item"
    /\ LastLine.suffix = "srw"
    /\ current_session # None
    /\ current_session.type = "tutorial"

\* the n-th day header line
NthDayLine(n) ==
    CHOOSE k \in LinesOf({"day"}) : Cardinality({j \in LinesOf({"day"}) : j <= k}) = n

\* the lines that open a top-level session or a session group of the day
\* opened by line d
TopLevelOf(d) ==
    {k \in LinesOf({"plenary", "group", "session"}) :
        /\ DayLineAt(k) = d
        /\ input[k].kind = "session" => GroupLineAt(k) = 0}

\* C9: for an order file that begins with a day header, the finished Agenda
\* has one Day per day header, in file order, and the contents of each Day
\* are exactly the top-level sessions and the session groups opened under
\* its header (none for a day header followed by a day header or by the end).
C9_OneDayPerHeader ==
    (pc = "done" /\ StartsWithDay) =>
        /\ Len(days) = Cardinality(LinesOf({"day"}))
        /\ \A n \in 1..Len(days) :
              /\ days[n] # None
              /\ days[n].kind = "Day"
              /\ days[n].id = NthDayLine(n)
              /\ {days[n].contents[j].id : j \in 1..Len(days[n].contents)}
                     = TopLevelOf(days[n].id)
              /\ Len(days[n].contents) = Cardinality(TopLevelOf(days[n].id))

\* C9 witness: a finished Agenda with a Day that holds a group and a session
\* and a Day with no contents
C9_Witness ==
    /\ pc = "done"
    /\ StartsWithDay
    /\ \E n \in 1..Len(days) : days[n] # None /\ Len(days[n].contents) >= 2
    /\ \E n \in 1..Len(days) : days[n] # None /\ days[n].contents = <<>>


-----------------------------------------------------------------------------
(* Poster topics *)

SignificantKinds == HeaderKinds \cup {"item", "topic"}

\* the first header, marker or item line after line k, 0 if there is none
NextSignificant(k) ==
    LET after == {j \in LinesOf(SignificantKinds) : j > k}
    IN  IF after = {} THEN 0 ELSE CHOOSE j \in after : \A h \in after : j <= h

\* line k is read while a poster session is open
UnderPoster(k) ==
    /\ SessionLineAt(k) # 0
    /\ TypeOfLine(SessionLineAt(k)) = "poster"

\* <<k, p>>: marker line k in a poster session and the poster item line p
\* that immediately follows it in that session
MarkedPosters ==
    {kp \in LinesOf({"topic"}) \X LinesOf({"item"}) :
        /\ UnderPoster(kp[1])
        /\ NextSignificant(kp[1]) = kp[2]}

\* marker lines followed by a header or a non-poster item before any poster
DiscardedMarkers ==
    {k \in LinesOf({"topic"}) :
        /\ NextSignificant(k) # 0
        /\ \/ input[NextSignificant(k)].kind \in HeaderKinds
           \/ input[NextSignificant(k)].kind = "item" /\ ~UnderPoster(NextSignificant(k))}

PostersInAgenda == {it \in {At(p) : p \in ItemPos} : it.type = "poster"}

\* C3: the poster item that immediately follows a topic marker in a poster
\* session ends up in the final Agenda with the marker's text as topic,
\* whatever follows it; no other item has a marker's text as topic; and the
\* pending topic is None once that poster has been read.
C3_TopicOnNextPoster ==
    pc = "done" =>
        /\ \A kp \in MarkedPosters :
              /\ ItemsOf(kp[2]) # {}
              /\ \A it \in ItemsOf(kp[2]) : it.topic = input[kp[1]].text
        /\ \A it \in PostersInAgenda :
              it.topic \in TopicTexts =>
                  \E kp \in MarkedPosters : kp[2] = it.id /\ input[kp[1]].text = it.topic
        /\ (\E kp \in MarkedPosters : kp[2] = Len(input)) =>
              current_poster_topic = NoneTopic

\* C4: a topic marker followed by a header or by a non-poster item before any
\* poster item is discarded: no poster item read later has its text as topic
\* (a poster's topic comes from the last marker read before the poster).
C4_DiscardedTopicStaysDiscarded ==
    pc = "done" =>
        \A it \in PostersInAgenda :
            it.topic \in TopicTexts =>
                /\ LastBefore(it.id, {"topic"}) # 0
                /\ LastBefore(it.id, {"topic"}) \notin DiscardedMarkers

\* C5: in the final Agenda every poster item that is not the first item read
\* after a topic marker has the empty string as topic.
C5_LaterPostersHaveEmptyTopic ==
    pc = "done" =>
        \A it \in PostersInAgenda :
            (LastBefore(it.id, {"item", "topic"}) = 0
             \/ input[LastBefore(it.id, {"item", "topic"})].kind # "topic")
            => it.topic = ""

\* C6: a line that matches no category makes the parse fail.
C6_UnrecognizedLineFails ==
    (Len(input) > 0 /\ LastLine.kind = "other") => pc = "failed"

\* C7: an item line read while the open session is a plenary or break
\* session makes the parse fail.
C7_ItemUnderPlenaryFails ==
    (/\ Len(input) > 0
     /\ LastLine.kind = "item"
     /\ current_session # None
     /\ current_session.type \in {"plenary", "break"})
    => pc = "failed"

\* all but the last element
DropLast(seq) == SubSeq(seq, 1, Len(seq) - 1)

\* C10: ending the input here gives the Agenda that one more day header
\* followed by the end of input gives, with the final empty Day removed
\* (in particular both parses succeed).
C10_EndOfInputIsDayHeader ==
    pc = "reading" =>
        LET atEnd == EndBranch(days, current_day, current_session_group,
                               current_session, current_item)
            header == DayBranch(days, current_day, current_session_group,
                                current_session, current_item, NextId)
            after == EndBranch(header.days, header.day, header.group,
                               header.session, header.item)
        IN  /\ atEnd.ok
            /\ header.ok /\ after.ok
            /\ Len(after.days) > 0
            /\ after.days[Len(after.days)] = Day_fromstring(NextId)
            /\ atEnd.days = DropLast(after.days)


-----------------------------------------------------------------------------
(* Failure, nesting and order *)

\* C11: when the parse fails, Agenda.days holds no Day of the failing input.
C11_FailureLeavesNoDays ==
    pc = "failed" => days = <<>>

\* the session group with the given id, where it occurs in the Agenda
GroupsOf(id) == {At(p) : p \in {q \in GroupPos : At(q).id = id}}

\* C15: in the final Agenda a session opened by a '=' line under a day is a
\* member of the session group that was open at its header, and of no Day's
\* contents, if a group was open; it is a direct member of the contents of
\* its Day, and of no group, if no group was open.
C15_SessionGoesToOpenGroup ==
    pc = "done" =>
        \A k \in LinesOf({"session"}) :
            DayLineAt(k) # 0 =>
                IF GroupLineAt(k) # 0
                THEN /\ \E g \in GroupsOf(GroupLineAt(k)) :
                           \E m \in 1..Len(g.sessions) : g.sessions[m].id = k
                     /\ \A p \in TopPos : At(p).id # k
                ELSE /\ \E p \in TopPos : At(p).id = k /\ p[2] \in 1..Len(days)
                                          /\ days[p[2]].id = DayLineAt(k)
                     /\ \A p \in SubPos : At(p).id # k

\* C15 witness: a finished Agenda with a '=' session inside a group and a '='
\* session directly in a Day
C15_Witness ==
    /\ pc = "done"
    /\ \E k \in LinesOf({"session"}) :
          DayLineAt(k) # 0 /\ GroupLineAt(k) # 0 /\ \E p \in SubPos : At(p).id = k
    /\ \E k \in LinesOf({"session"}) :
          DayLineAt(k) # 0 /\ GroupLineAt(k) = 0 /\ \E p \in TopPos : At(p).id = k

\* C16: the contents of every Day of the final Agenda are in the order of
\* their header lines in the file.
C16_ContentsInFileOrder ==
    pc = "done" =>
        \A n \in 1..Len(days) :
            days[n] # None =>
                \A i, j \in 1..Len(days[n].contents) :
                    i < j => days[n].contents[i].id < days[n].contents[j].id

\* C16 witness: a Day that holds a session group followed by a plenary or
\* break session
C16_Witness ==
    /\ pc = "done"
    /\ \E p, q \in TopPos :
          /\ p[2] = q[2]
          /\ p[3] < q[3]
          /\ At(p).kind = "SessionGroup"
          /\ At(q).kind = "Session"
          /\ At(q).type \in {"plenary", "break"}


-----------------------------------------------------------------------------
(* Committed objects *)

\* the children list of an object
Children(o) ==
    CASE o.kind = "Day" -> o.contents
      [] o.kind = "SessionGroup" -> o.sessions
      [] o.kind = "Session" -> o.items
      [] OTHER -> <<>>

RECURSIVE Descendants(_)
\* the objects of a list and everything below them, None entries left out
Descendants(seq) ==
    IF seq = <<>> THEN <<>>
    ELSE (IF Head(seq) = None THEN <<>> ELSE <<Head(seq)>>)
         \o Descendants(Children(Head(seq))) \o Descendants(Tail(seq))

\* every object that has been appended to a parent: the Days of the Agenda
\* and everything below them, and everything below the current objects
Committed ==
    Descendants(days) \o Descendants(Children(current_day))
    \o Descendants(Children(current_session_group))
    \o Descendants(Children(current_session))

\* the ids of the objects in the current slots
CurrentIds ==
    {o.id : o \in {c \in {current_day, current_session_group, current_session,
                          current_item} : c # None}}

\* C17: an object that has been committed to its parent is not changed by a
\* later step (wherever it still occurs it has the same children and fields),
\* is not in a current slot afterwards, and is not committed a second time.
C17_CommittedNeverChanges ==
    [][\A n \in 1..Len(Committed) :
          /\ Committed[n].id \notin CurrentIds'
          /\ \A m \in 1..Len(Committed') :
                Committed'[m].id = Committed[n].id => Committed'[m] = Committed[n]
          /\ Cardinality({m \in 1..Len(Committed') : Committed'[m].id = Committed[n].id}) <= 1
      ]_vars

\* C17 witness: an item and the session that holds it were committed and at
\* least two more lines have been read since
C17_Witness ==
    /\ pc = "reading"
    /\ \E n, m \in 1..Len(Committed) :
          /\ Committed[n].kind = "Item"
          /\ Committed[m].kind = "Session"
          /\ Committed[m].items # <<>>
          /\ Committed[m].id + 3 <= Len(input)

-----------------------------------------------------------------------------
(* Frame effects of the header and marker lines *)

\* this step reads a line of the given kind and the branch does not raise
ReadsKind(kind) ==
    /\ pc = "reading"
    /\ pc' = "reading"
    /\ Len(input') = Len(input) + 1
    /\ input'[Len(input')].kind = kind

\* the open session with the open item added, as the item commit leaves it
WithItem ==
    IF current_item # None /\ current_session # None
    THEN [current_session EXCEPT !.items = Append(@, current_item)]
    ELSE current_session

\* the open session is committed to the open group
GoesToGroup ==
    /\ current_session # None
    /\ current_session_group # None
    /\ current_session.type \notin {"plenary", "break"}

\* the open group with the open session added, if the session goes to it
WithSession ==
    IF GoesToGroup
    THEN [current_session_group EXCEPT !.sessions = Append(@, WithItem)]
    ELSE current_session_group

\* C18 as claimed: a '=' line commits the open item and clears the item slot,
\* and appends the open session to no group and no day.
C18_SessionHeaderCommitsItemOnly ==
    [][ReadsKind("session") =>
          /\ current_item' = None
          /\ days' = days
          /\ current_day' = current_day
          /\ current_session_group' = current_session_group
      ]_vars

\* C18 amended: a '=' line commits the open item to the open session and the
\* open session to the open group (if one is open and the session is neither
\* plenary nor break) or else to the open day; it clears the item slot, makes
\* the new session current, and commits neither the group nor the day.
C18_SessionHeaderCommitsSession ==
    [][ReadsKind("session") =>
          /\ current_item' = None
          /\ current_session' = NewSession(Len(input'), current_session'.type)
          /\ days' = days
          /\ current_session_group' = WithSession
          /\ current_day' = IF current_session # None /\ ~GoesToGroup
                            THEN [current_day EXCEPT !.contents = Append(@, WithItem)]
                            ELSE current_day
      ]_vars

\* C18 witness: a '=' line has been read after an item of a session in a
\* group, and that session, with the item, is now the last member of the group
C18_Witness ==
    /\ pc = "reading"
    /\ Len(input) >= 2
    /\ LastLine.kind = "session"
    /\ input[Len(input) - 1].kind = "item"
    /\ current_session_group # None
    /\ current_session_group.sessions # <<>>
    /\ LET last == current_session_group.sessions[Len(current_session_group.sessions)]
       IN  last.items # <<>> /\ last.items[Len(last.items)].id = Len(input) - 1

\* the contents of the open day after the open session and the open group
\* have been committed
ContentsAfterGroupCommit ==
    LET c1 == IF current_session # None /\ ~GoesToGroup
              THEN Append(current_day.contents, WithItem) ELSE current_day.contents
    IN  IF current_session_group # None THEN Append(c1, WithSession) ELSE c1

\* C19 as claimed: a '!' line commits the open item and the open session,
\* does not append the open session group to the day, does not commit the
\* day, and leaves the group slot and the item slot empty.
C19_PlenaryHeaderLeavesGroupOut ==
    [][ReadsKind("plenary") =>
          /\ current_item' = None
          /\ current_session_group' = None
          /\ days' = days
          /\ current_session_group # None =>
                \A j \in 1..Len(current_day'.contents) :
                    current_day'.contents[j].id # current_session_group.id
      ]_vars

\* C19 amended: a '!' line commits the open item and the open session,
\* appends the open session group (if any) to the day, does not commit the
\* day, and leaves the group slot and the item slot empty.
C19_PlenaryHeaderCommitsGroup ==
    [][ReadsKind("plenary") =>
          /\ current_item' = None
          /\ current_session_group' = None
          /\ current_session' = NewSession(Len(input'), current_session'.type)
          /\ current_session'.type \in {"plenary", "break"}
          /\ days' = days
          /\ current_day' = IF current_day = None THEN None
                            ELSE [current_day EXCEPT !.contents = ContentsAfterGroupCommit]
      ]_vars

\* C19 witness: a '!' line has been read while a group with a session was
\* open, and the group is now the last element of the day's contents
C19_Witness ==
    /\ pc = "reading"
    /\ Len(input) >= 1
    /\ LastLine.kind = "plenary"
    /\ GroupLineAt(Len(input)) # 0
    /\ current_day # None
    /\ current_day.contents # <<>>
    /\ LET last == current_day.contents[Len(current_day.contents)]
       IN  /\ last.id = GroupLineAt(Len(input))
           /\ last.sessions # <<>>

\* C20 as claimed: a '@' line commits nothing, leaves the open day, group and
\* session unchanged, stores the marker text and clears the item slot.
C20_TopicMarkerCommitsNothing ==
    [][ReadsKind("topic") =>
          /\ days' = days
          /\ current_day' = current_day
          /\ current_session_group' = current_session_group
          /\ current_session' = current_session
          /\ current_poster_topic' = input'[Len(input')].text
          /\ current_item' = None
      ]_vars

\* C20 amended: a '@' line commits the open item (if any) to the open
\* session and commits no session, group or day; it leaves the open day and
\* group unchanged and the open session unchanged but for the added item,
\* stores the marker text and clears the item slot.
C20_TopicMarkerCommitsItem ==
    [][ReadsKind("topic") =>
          /\ days' = days
          /\ current_day' = current_day
          /\ current_session_group' = current_session_group
          /\ current_session' = WithItem
          /\ current_poster_topic' = input'[Len(input')].text
          /\ current_item' = None
      ]_vars

\* C20 witness: a '@' line has been read right after an item line, the item
\* is the last item of the open session, the item slot is empty and the
\* marker text is pending
C20_Witness ==
    /\ pc = "reading"
    /\ Len(input) >= 2
    /\ LastLine.kind = "topic"
    /\ input[Len(input) - 1].kind = "item"
    /\ current_item = None
    /\ current_poster_topic = LastLine.text
    /\ current_session # None
    /\ current_session.items # <<>>
    /\ current_session.items[Len(current_session.items)].id = Len(input) - 1


-----------------------------------------------------------------------------
(* Repeated and interleaved parses *)

\* C12: two finished parses of the same line sequence leave equal Agendas,
\* whatever an earlier parse left behind.
C12_SameLinesSameAgenda ==
    \A p, q \in Parsers :
        (/\ frames[p].pc = "done"
         /\ frames[q].pc = "done"
         /\ frames[p].input = frames[q].input)
        => frames[p].days = frames[q].days

\* C13: whatever the interleaving of the two callers' steps, the Agenda and
\* the slots of each call are those of the same call run alone over the
\* lines it has read.
C13_InterleavedAsAlone ==
    \A p \in Parsers :
        frames[p].pc # "idle"
        => frames[p] = Run(StartFrame(frames[p].before, frames[p].calls,
                                       frames[p].total - Len(SelectSeq(frames[p].input, LAMBDA l : l.kind # "eof"))),
                            frames[p].input)

\* C13 witness: both calls are in their loops, one holds a pending poster
\* topic after an item, the other has read a poster item and no topic marker
C13_Witness ==
    /\ frames[1].pc = "reading"
    /\ frames[2].pc = "reading"
    /\ frames[1].topic \in TopicTexts
    /\ frames[1].session # None
    /\ frames[1].session.items # <<>>
    /\ frames[2].topic = Unbound
    /\ frames[2].item # None


-----------------------------------------------------------------------------
(* Metadata strings *)

\* the positions of the "%" characters of a string
PercentsOf(str) == {j \in 1..Len(str) : str[j] = "%"}

\* the text that follows the "%" at position j, up to the next "%"
SegmentAt(str, j) == SubSeq(str, j + 1, RunEnd(str, j + 1, NonPercent) - 1)

\* the key of a segment: its characters before the first whitespace
KeyOf(seg) == SubSeq(seg, 1, RunEnd(seg, 1, NonSpace) - 1)

\* the value of a segment: what follows the key, without the whitespace
\* around it
ValueOf(seg) == strip(SubSeq(seg, RunEnd(seg, 1, NonSpace), Len(seg)))

\* the segment is a "key value" pair
IsPair(seg) == KeyOf(seg) # <<>> /\ ValueOf(seg) # <<>>

\* a string made of '%key value' pairs and nothing else
OnlyPairs(str) ==
    /\ str # <<>>
    /\ str[1] = "%"
    /\ \A j \in PercentsOf(str) : IsPair(SegmentAt(str, j))

\* the mapping of a string made of pairs: each key with its trimmed value,
\* the last pair of a key counting
TrimmedPairs(str) ==
    {<<KeyOf(SegmentAt(str, j)), ValueOf(SegmentAt(str, j))>> :
        j \in {n \in PercentsOf(str) :
                 \A m \in PercentsOf(str) :
                     m > n => KeyOf(SegmentAt(str, m)) # KeyOf(SegmentAt(str, n))}}

\* some "%" of the string is followed by a key, whitespace and a value that
\* is not only whitespace
HasPair(str) ==
    \E j \in PercentsOf(str) :
        LET key_end == RunEnd(str, j + 1, NonSpace)
            space_end == RunEnd(str, key_end, Space)
        IN  /\ key_end > j + 1
            /\ space_end > key_end
            /\ space_end <= Len(str)
            /\ str[space_end] # "%"

\* C14: parse_metadata_into_dict maps every '%key value' pair of its input to
\* the key and the value without the whitespace around it, also when another
\* '%key' follows the value; an input with no '%key value' pair gives the
\* empty mapping.
C14_KeysToTrimmedValues ==
    meta.pc = "returned" =>
        LET str == strip(meta.metadata_string)
        IN  /\ OnlyPairs(str) => meta.metadata_dict = TrimmedPairs(str)
            /\ ~HasPair(str) => meta.metadata_dict = {}


-----------------------------------------------------------------------------
(* Items without a session, lines before the first day, empty input *)

\* C23: an item line read while no session is open makes the parse fail; no
\* Item is created for the line and the line is not skipped.
C23_ItemWithoutSessionFails ==
    (/\ pc # "done"
     /\ Len(input) > 0
     /\ LastLine.kind = "item"
     /\ current_session = None)
    => /\ pc = "failed"
       /\ Len(input) \notin created
       /\ current_item = None

\* C23 witness: the parse has failed at an item line that directly follows a
\* session group header
C23_Witness ==
    /\ pc = "failed"
    /\ Len(input) >= 2
    /\ LastLine.kind = "item"
    /\ input[Len(input) - 1].kind = "group"
    /\ current_session = None

\* C24: with no topic marker read earlier, a second consecutive poster item
\* line of a poster session does not make the parse fail, and the posters of
\* the finished Agenda have the empty topic.
C24_PostersWithoutMarkerParse ==
    (/\ Len(input) >= 2
     /\ LastLine.kind = "item"
     /\ input[Len(input) - 1].kind = "item"
     /\ UnderPoster(Len(input))
     /\ DayLineAt(Len(input)) # 0
     /\ LinesOf({"topic"}) = {})
    => /\ pc # "failed"
       /\ pc = "done" => \A it \in PostersInAgenda : it.topic = ""

\* C25: the finished Agenda of an input with no lines or only blank lines
\* has no days, and no finished Agenda has None among its days.
C25_NoNullDay ==
    pc = "done" =>
        /\ \A n \in 1..Len(days) : days[n] # None
        /\ LinesOf({"blank"}) = 1..Len(input) => days = <<>>

\* C26: when the parse finishes, the object created by every plenary, group,
\* session and item line that precedes the first day header is in the Agenda.
C26_LinesBeforeFirstDayKept ==
    pc = "done" =>
        \A k \in LinesOf({"plenary", "group", "session", "item"}) :
            (DayLineAt(k) = 0 /\ k \in created) => Occurrences(k) >= 1

\* C27: in the finished Agenda every item is in the items of the session
\* whose header is the last header before the item's line, the items of each
\* session are in the order of their lines, and every item created under a
\* day is there, also with topic markers between the item lines.
C27_ItemsUnderLatestSession ==
    pc = "done" =>
        /\ \A p \in SessionPos :
              \A n \in 1..Len(At(p).items) :
                  /\ SessionLineAt(At(p).items[n].id) = At(p).id
                  /\ n > 1 => At(p).items[n - 1].id < At(p).items[n].id
        /\ \A k \in LinesOf({"item"}) :
              (k \in created /\ DayLineAt(k) # 0)
              => \E p \in SessionPos :
                    /\ At(p).id = SessionLineAt(k)
                    /\ \E n \in 1..Len(At(p).items) : At(p).items[n].id = k

\* C27 witness: a finished Agenda with a session that holds two items whose
\* lines have a topic marker between them
C27_Witness ==
    /\ pc = "done"
    /\ \E p \in SessionPos :
          \E n \in 2..Len(At(p).items) :
              \E k \in LinesOf({"topic"}) :
                  At(p).items[n - 1].id < k /\ k < At(p).items[n].id

\* C29: between lines the open session is never a plenary or break session
\* while a session group is open, so whenever a session is committed with a
\* group open the session goes to the group.
C29_NoPlenaryWithOpenGroup ==
    ~(/\ current_session # None
      /\ current_session_group # None
      /\ current_session.type \in {"plenary", "break"})

\* C29 witness: a plenary header has been read after a session group header
\* of the same day, and a session group header after a plenary header
C29_Witness ==
    /\ pc = "reading"
    /\ Len(input) >= 1
    /\ LastLine.kind = "plenary"
    /\ current_session # None
    /\ current_session.type \in {"plenary", "break"}
    /\ \E k, h \in LinesOf({"group"}) :
          /\ k = Len(input) - 1
          /\ LastBefore(h, HeaderKinds) # 0
          /\ input[LastBefore(h, HeaderKinds)].kind = "plenary"


-----------------------------------------------------------------------------
(* Metadata lookups *)

\* the <<anthology id, order id>> lines of the mapping files
MappingLines ==
    UNION {{schedule_metadata.mappings[f][n] : n \in 1..Len(schedule_metadata.mappings[f])} :
              f \in 1..Len(schedule_metadata.mappings)}

\* the ids that the mapping files, the XML files or the TSV file mention
MentionedIds ==
    schedule_metadata.xmls
    \cup {l[1] : l \in MappingLines} \cup {l[2] : l \in MappingLines}
    \cup {schedule_metadata.non_anthology_tsv[j] :
             j \in 1..Len(schedule_metadata.non_anthology_tsv)}

\* C28: for every line of the mapping files, the lookup by its anthology id
\* and the lookup by its order id both succeed and give the same tuple; the
\* lookup of an id that no file mentions fails.
C28_BothLookupsAgree ==
    schedule_metadata.pc = "made" =>
        /\ \A l \in MappingLines :
              \A a, o \in schedule_metadata.looked_up :
                  (a[1] = l[1] /\ o[1] = l[2])
                  => (a[2] # KeyError /\ o[2] # KeyError /\ a[2] = o[2])
        /\ \A u \in schedule_metadata.looked_up :
              u[1] \notin MentionedIds => u[2] = KeyError


-----------------------------------------------------------------------------
(* Types of sessions and items *)

\* the room that the metadata of a line gives: the value of its 'room' pair
\* without the whitespace around it, the empty string if it has none
RoomOf(metadata_string) ==
    LET str == strip(metadata_string)
        rooms == {pair \in TrimmedPairs(str) : pair[1] = RoomKey}
    IN  IF str # <<>> /\ OnlyPairs(str) /\ rooms # {}
        THEN (CHOOSE pair \in rooms : TRUE)[2]
        ELSE <<>>

\* C21: an item line read while a poster, paper, best-paper or tutorial
\* session is open, and that does not make the parse fail, gives an Item
\* whose type follows from the type of that session: a poster with track
\* 'main'; a paper with the numeric prefix as id and the suffix, or 'main',
\* as track; a tutorial with the numeric prefix as id and the metadata's
\* room as location.
C21_ItemTypeFromSession ==
    (/\ pc = "reading"
     /\ Len(input) > 0
     /\ LastLine.kind = "item"
     /\ current_session # None
     /\ current_session.type \in {"poster", "paper", "best_paper", "tutorial"})
    => /\ current_item # None
       /\ current_item.id = Len(input)
       /\ current_session.type = "poster"
             => current_item.type = "poster" /\ current_item.track = "main"
       /\ current_session.type \in {"paper", "best_paper"}
             => /\ current_item.type = "paper"
                /\ current_item.id_ = <<Len(input), "">>
                /\ current_item.track = IF LastLine.suffix = "" THEN "main"
                                        ELSE LastLine.suffix
       /\ current_session.type = "tutorial"
             => /\ current_item.type = "tutorial"
                /\ current_item.id_ = <<Len(input), "">>
                /\ current_item.location = RoomOf(LastLine.metadata)

\* C21 witness: under a day's tutorial session, a tutorial item has been
\* read whose metadata names a room and then a chair
C21_Witness ==
    /\ pc = "reading"
    /\ Len(input) > 0
    /\ LastLine.kind = "item"
    /\ current_item # None
    /\ current_item.type = "tutorial"
    /\ current_item.location = <<"a">>
    /\ \E n \in 1..Len(LastLine.metadata) : LastLine.metadata[n] = " "
    /\ Cardinality(PercentsOf(LastLine.metadata)) = 2
    /\ current_session # None
    /\ current_session.type = "tutorial"
    /\ current_day # None

\* the type that the title of a header line stands for
TypeOfTitle(line) ==
    CASE line.kind = "plenary" /\ line.title = <<"Coffee">> -> "break"
      [] line.kind = "plenary" /\ line.title = <<"Keynote">> -> "plenary"
      [] line.kind = "session" /\ line.form = "Session" /\ line.title = <<"Posters">> -> "poster"
      [] line.kind = "session" /\ line.form = "Session" /\ line.title = <<"Speech">> -> "paper"
      [] line.kind = "session" /\ line.title = <<"Tutorials">> -> "tutorial"
      [] line.kind = "session" /\ line.title = <<"Best">> -> "best_paper"

\* the parse has just read a '!' or '=' line, or failed at it
AtHeader ==
    /\ pc # "done"
    /\ Len(input) > 0
    /\ LastLine.kind \in {"plenary", "session"}

\* the sessions of the finished Agenda have the types of their titles
FinalTypes ==
    pc = "done" => \A p \in SessionPos : At(p).type = TypeOfTitle(input[At(p).id])

\* a header line that Session.fromstring accepts opens a session with the
\* type of its title, and one that it does not accept makes the parse fail
TypesOfAcceptedHeaders ==
    /\ AtHeader =>
          IF LastLine.form = "SessionNoColon" THEN pc = "failed"
          ELSE pc = "reading" => /\ current_session # None
                                 /\ current_session.id = Len(input)
                                 /\ current_session.type = TypeOfTitle(LastLine)
    /\ FinalTypes

\* C22: every '!' line and every '=' line opens a session whose type is
\* the type of its title: break or plenary for a '!' line, poster or paper
\* for a "= Session <id>: <title>" line, and tutorial or best_paper for any
\* other '=' line, one that starts with "= Session" but has no "<id>: "
\* included.
C22_EveryHeaderGivesType ==
    /\ AtHeader =>
          /\ input[1].kind = "day" => pc = "reading"
          /\ pc = "reading" => /\ current_session # None
                               /\ current_session.id = Len(input)
                               /\ current_session.type = TypeOfTitle(LastLine)
    /\ FinalTypes

=============================================================================
